---------------------------- MODULE Spec2Model ----------------------------
(***************************************************************************)
(* Discrete segmentation search space of archai:                           *)
(*   archai/search_spaces/discrete_search_spaces/                          *)
(*     segmentation_search_spaces/discrete_search_space_segmentation.py    *)
(*                                                                         *)
(* The module models the two helpers random_neighbor and                   *)
(* rename_dag_node_list and the operators of                               *)
(* DiscreteSearchSpaceSegmentation (random_sample, get_neighbors,          *)
(* crossover, load_from_graph).                                            *)
(*                                                                         *)
(* Python objects are references.  A node (a dict with the keys name, op,  *)
(* scale and inputs) lives at an address of a heap, a node list is a       *)
(* sequence of addresses, copy.deepcopy allocates fresh addresses.  The    *)
(* heap is local to one call: between calls the state keeps the values.    *)
(* Indices of the source are 0-based, sequences here are 1-based: the      *)
(* source index i is position i + 1.                                       *)
(***************************************************************************)
EXTENDS Integers, Sequences, FiniteSets, TLC

VARIABLES
    rnCall,     \* one call of random_neighbor: arguments, position, result
    renCall,    \* one call of rename_dag_node_list: arguments, position, results
    space,      \* the search space: the fields __init__ sets (min_mac, max_mac)
    pop,        \* the architectures the caller holds, by slot
    call,       \* the operator call that runs: its arguments, locals, position
    ctor,       \* one construction of a search space, and one get_arch_repr on it
    cfg         \* one call of resolve_dict: the dictionary, position, result

vars == <<rnCall, renCall, space, pop, call, ctor, cfg>>

helperVars == <<rnCall, renCall, ctor, cfg>>

spaceVars == <<space, pop, call>>

-----------------------------------------------------------------------------
(* Python helpers *)

\* Python's None, where it stands in a list of node names (line 399).
None == "None"

Abs(x) == IF x < 0 THEN -x ELSE x

Min2(a, b) == IF a <= b THEN a ELSE b

Range(s) == {s[i] : i \in 1..Len(s)}

\* seq[idx] of Python for a 0-based idx: a negative index counts from the
\* end, an index outside -len..len-1 raises IndexError.
PyIndexOk(s, idx) == -Len(s) <= idx /\ idx < Len(s)

PyIndex(s, idx) == IF idx >= 0 THEN s[idx + 1] ELSE s[Len(s) + idx + 1]

\* All sequences over S of length 0..n, with and without repeated elements.
SeqsUpTo(S, n) == UNION {[1..k -> S] : k \in 0..n}

InjSeqsUpTo(S, n) ==
    {s \in SeqsUpTo(S, n) : \A i, j \in 1..Len(s) : i # j => s[i] # s[j]}

\* sorted(param_values): insertion of each element in ascending order.
RECURSIVE SortedInsert(_, _)
SortedInsert(s, x) ==
    IF s = <<>> THEN <<x>>
    ELSE IF x < Head(s) THEN <<x>> \o s
    ELSE <<Head(s)>> \o SortedInsert(Tail(s), x)

RECURSIVE Sorted(_)
Sorted(s) == IF s = <<>> THEN <<>> ELSE SortedInsert(Sorted(Tail(s)), Head(s))

-----------------------------------------------------------------------------
(* random_neighbor, lines 20-35 *)

\* param2idx[min(param2idx, key=lambda k: abs(k - current_value))], line 28:
\* min returns the first key, in the dict's (ascending) order, of least
\* distance.  0-based.  An empty dict makes min raise: no index.
ClosestIdx(sorted_values, current_value) ==
    CHOOSE i \in 0..(Len(sorted_values) - 1) :
        /\ \A j \in 0..(Len(sorted_values) - 1) :
              Abs(sorted_values[i + 1] - current_value)
                  <= Abs(sorted_values[j + 1] - current_value)
        /\ \A j \in 0..(i - 1) :
              Abs(sorted_values[j + 1] - current_value)
                  > Abs(sorted_values[i + 1] - current_value)

\* Lines 25-28: the index of the current value, else of the closest value.
\* param2idx maps a value to its (last) index in the sorted list.
CurrentIdx(sorted_values, current_value) ==
    IF current_value \in Range(sorted_values)
    THEN CHOOSE i \in 0..(Len(sorted_values) - 1) :
            /\ sorted_values[i + 1] = current_value
            /\ \A j \in (i + 1)..(Len(sorted_values) - 1) :
                  sorted_values[j + 1] # current_value
    ELSE ClosestIdx(sorted_values, current_value)

\* A bug the boundary test of line 31 guards against: always allow -1.
OffsetLowUnguarded(current_idx) == -1

\* Line 31: a = -1 if current_idx > 0 else 0.
OffsetLow(current_idx) == IF current_idx > 0 THEN -1 ELSE 0

\* Line 32: b = 1 if current_idx < len(param_values) - 1 else 0.
OffsetHigh(current_idx, n) == IF current_idx < n - 1 THEN 1 ELSE 0

\* The outcomes of random_neighbor(param_values, current_value): one per
\* value random.randint(a, b) can draw.  An empty domain makes min raise
\* (line 28), an empty range makes randint raise, an index out of range makes
\* line 35 raise.
RandomNeighborOutcomes(param_values, current_value) ==
    LET sorted_values == Sorted(param_values)
        n == Len(sorted_values)
    IN  IF n = 0
        THEN {[raised |-> TRUE, value |-> 0]}
        ELSE LET current_idx == CurrentIdx(sorted_values, current_value)
                 a == OffsetLow(current_idx)
                 b == OffsetHigh(current_idx, n)
             IN  IF a > b
                 THEN {[raised |-> TRUE, value |-> 0]}
                 ELSE {IF PyIndexOk(sorted_values, current_idx + offset)
                       THEN [raised |-> FALSE,
                             value |-> PyIndex(sorted_values, current_idx + offset)]
                       ELSE [raised |-> TRUE, value |-> 0] : offset \in a..b}

\* The values random_neighbor can return.
RandomNeighbor(param_values, current_value) ==
    {o.value : o \in {x \in RandomNeighborOutcomes(param_values, current_value) :
                         ~x.raised}}

-----------------------------------------------------------------------------
(* Nodes, the heap, copy.deepcopy *)

\* A node dict: {'name': ..., 'op': ..., 'scale': ..., 'inputs': [...]}.
MkNode(name, op, scale, inputs) ==
    [name |-> name, op |-> op, scale |-> scale, inputs |-> inputs]

\* The nodes a list of addresses refers to.
Deref(h, addrs) == [i \in 1..Len(addrs) |-> h[addrs[i]]]

\* The heap that holds the nodes of a list of values, and their addresses.
HeapOf(nodes) == nodes

AddrsFrom(base, n) == [i \in 1..n |-> base + i]

\* A bug: the list is returned as it is, its nodes are the caller's.
NoCopy(h, addrs) == [heap |-> h, list |-> addrs]

\* copy.deepcopy(node_list) for a list of distinct nodes: a fresh node per
\* node, equal to it.
DeepCopy(h, addrs) ==
    [heap |-> h \o Deref(h, addrs), list |-> AddrsFrom(Len(h), Len(addrs))]

-----------------------------------------------------------------------------
(* rename_dag_node_list, lines 38-70 *)

\* rename_map, a dict, as the set of its (key, value) pairs.
MapKeys(m) == {p[1] : p \in m}

MapGet(m, k) == (CHOOSE p \in m : p[1] = k)[2]

MapPut(m, k, v) == {p \in m : p[1] # k} \cup {<<k, v>>}

\* Line 42: prefix = prefix + '_' if prefix else ''.
PrefixOf(prefix) == IF prefix # "" THEN prefix \o "_" ELSE ""

\* Lines 44-46.
InitialRenameMap(rename_input_output) ==
    IF ~rename_input_output
    THEN {<<"input", "input">>, <<"output", "output">>}
    ELSE {}

\* A bug: the prefix is put before the node's present name.
RenameNodeKeepName(node, i, n, prefix, add_input_output) ==
    [node EXCEPT !.name = PrefixOf(prefix) \o node.name]

\* Lines 51-61, the node's side: node['name'] = new_name for the node at the
\* source index i of a list of n nodes.
RenameNode(node, i, n, prefix, add_input_output) ==
    [node EXCEPT !.name =
        IF add_input_output
        THEN IF i = 0 THEN "input"
             ELSE IF i = n - 1 THEN "output"
             ELSE PrefixOf(prefix) \o ("layer_" \o ToString(i))
        ELSE PrefixOf(prefix) \o ("layer_" \o ToString(i))]

\* A bug: the filter of line 67 is left out where the name is not None, so
\* a name that was not renamed stays in the list.
RewriteInputsKeepUnknown(inputs, rename_map) ==
    LET kept == SelectSeq(inputs, LAMBDA inp : inp # None /\ inp # "")
    IN  [j \in 1..Len(kept) |->
            IF kept[j] \in MapKeys(rename_map)
            THEN MapGet(rename_map, kept[j]) ELSE kept[j]]

\* Lines 64-68: [rename_map[inp] for inp in inputs if inp and inp in rename_map].
RewriteInputs(inputs, rename_map) ==
    LET kept == SelectSeq(inputs,
                    LAMBDA inp : inp # None /\ inp # ""
                                 /\ inp \in MapKeys(rename_map))
    IN  [j \in 1..Len(kept) |-> MapGet(rename_map, kept[j])]

\* One round of the loop of line 48, for the node at address a, source index i.
RenameStep(st, a, i, n, prefix, add_input_output) ==
    LET node == st.heap[a]
        fresh == node.name \notin MapKeys(st.map)
        node1 == IF fresh THEN RenameNode(node, i, n, prefix, add_input_output)
                 ELSE node
        map1 == IF fresh THEN MapPut(st.map, node.name, node1.name) ELSE st.map
        node2 == IF node1.inputs # <<>>
                 THEN [node1 EXCEPT !.inputs = RewriteInputs(node1.inputs, map1)]
                 ELSE node1
    IN  [heap |-> [st.heap EXCEPT ![a] = node2], map |-> map1]

RECURSIVE RenameLoop(_, _, _, _, _)
RenameLoop(st, addrs, i, prefix, add_input_output) ==
    IF i >= Len(addrs) THEN st
    ELSE RenameLoop(RenameStep(st, addrs[i + 1], i, Len(addrs), prefix,
                               add_input_output),
                    addrs, i + 1, prefix, add_input_output)

\* rename_dag_node_list(node_list, prefix, rename_input_output,
\* add_input_output) on the heap h: the heap after the call and the list
\* returned.
RenameDagNodeList(h, node_list, prefix, rename_input_output, add_input_output) ==
    LET copy == DeepCopy(h, node_list)
        done == RenameLoop([heap |-> copy.heap,
                            map |-> InitialRenameMap(rename_input_output)],
                           copy.list, 0, prefix, add_input_output)
    IN  [heap |-> done.heap, list |-> copy.list]

-----------------------------------------------------------------------------
(* Calls of random_neighbor *)

\* The longest domain a call is given.
MaxDomainLen == 3

\* The values of a domain: range(8, 49, 8) cut to four values (lines 128, 132).
DomainValues == {8, 16, 24, 32}

\* The current values: in the domain, between two values, halfway between
\* two values, below and above all of them.
CurrentValues == {0, 8, 12, 16, 18, 24, 32, 40}

\* The domains: non-empty lists of distinct integers, in any order.
Domains == {d \in InjSeqsUpTo(DomainValues, MaxDomainLen) : Len(d) >= 1}

RenIdle == [pc |-> "idle", node_list |-> <<>>, prefix |-> "",
            rename_input_output |-> TRUE, add_input_output |-> FALSE,
            arg_after |-> <<>>, ret |-> <<>>, shares |-> FALSE, ret2 |-> <<>>]

CtorIdle == [pc |-> "idle"]

\* No resolve_dict call runs: no dictionary, no key of the loop of line 218,
\* no resolve_path frame.
CfgIdle ==
    [pc |-> "idle", root_dict |-> <<>>, visited_paths |-> {}, key_idx |-> 0,
     stack |-> <<>>, error |-> ""]

\* No search space exists, no operator runs.
SpaceIdle ==
    /\ space = [min_mac |-> 0, max_mac |-> 0]
    /\ pop = <<>>
    /\ call = [op |-> "idle"]
    /\ ctor = CtorIdle
    /\ cfg = CfgIdle

RnIdle == [pc |-> "idle", param_values |-> <<>>, current_value |-> 0,
           raised |-> FALSE, value |-> 0]

\* The state where random_neighbor is entered (and nothing else runs).
InitRandomNeighbor ==
    /\ \E d \in Domains, c \in CurrentValues :
          rnCall = [pc |-> "call", param_values |-> d, current_value |-> c,
                    raised |-> FALSE, value |-> 0]
    /\ renCall = RenIdle
    /\ SpaceIdle

\* random_neighbor(param_values, current_value) runs to its end.
RandomNeighborCall ==
    /\ rnCall.pc = "call"
    /\ \E o \in RandomNeighborOutcomes(rnCall.param_values, rnCall.current_value) :
          rnCall' = [rnCall EXCEPT !.pc = "done", !.raised = o.raised,
                                   !.value = o.value]
    /\ UNCHANGED <<renCall, spaceVars, ctor, cfg>>

-----------------------------------------------------------------------------
(* Calls of rename_dag_node_list *)

\* The longest node list a call is given, and the most input references
\* (over all its nodes) of a list.
MaxRenameLen == 2

MaxRenameRefs == 1

\* The names of the nodes given: the two endpoints, a name of the positional
\* scheme and a name of neither kind.
RenameNames == {"input", "output", "layer_1", "a"}

RenamePrefixes == {"", "left"}

\* The input references of a list of n nodes: (position of the node, name
\* referred to), in the order of the nodes.
RenameRefs(n) ==
    {r \in SeqsUpTo((1..n) \X RenameNames, MaxRenameRefs) :
        \A k \in 1..(Len(r) - 1) : r[k][1] <= r[k + 1][1]}

\* The inputs of the node at position i.
RefsOfNode(r, i) ==
    LET mine == SelectSeq(r, LAMBDA ref : ref[1] = i)
    IN  [k \in 1..Len(mine) |-> mine[k][2]]

\* The node lists given: any names (also repeated ones), any references
\* (also to later nodes, to the node itself and to names of no node).
RenameLists ==
    UNION {{[i \in 1..n |-> MkNode(names[i], "conv", 1, RefsOfNode(r, i))] :
                names \in [1..n -> RenameNames], r \in RenameRefs(n)} :
           n \in 0..MaxRenameLen}

\* The state where rename_dag_node_list is entered (and nothing else runs).
InitRename ==
    /\ \E l \in RenameLists, p \in RenamePrefixes, rio \in BOOLEAN, aio \in BOOLEAN :
          renCall = [RenIdle EXCEPT !.pc = "call", !.node_list = l, !.prefix = p,
                                    !.rename_input_output = rio,
                                    !.add_input_output = aio]
    /\ rnCall = RnIdle
    /\ SpaceIdle

\* rename_dag_node_list(node_list, prefix, rename_input_output,
\* add_input_output): the caller's nodes are at the addresses 1..n.
RenameCall ==
    /\ renCall.pc = "call"
    /\ LET arg == AddrsFrom(0, Len(renCall.node_list))
           r == RenameDagNodeList(HeapOf(renCall.node_list), arg, renCall.prefix,
                                  renCall.rename_input_output,
                                  renCall.add_input_output)
       IN  renCall' = [renCall EXCEPT !.pc = "done",
                           !.arg_after = Deref(r.heap, arg),
                           !.ret = Deref(r.heap, r.list),
                           !.shares = Range(r.list) \cap Range(arg) # {}]
    /\ UNCHANGED <<rnCall, spaceVars, ctor, cfg>>

\* The list returned is renamed again, with the same prefix and flags.
RenameAgain ==
    /\ renCall.pc = "done"
    /\ LET arg == AddrsFrom(0, Len(renCall.ret))
           r == RenameDagNodeList(HeapOf(renCall.ret), arg, renCall.prefix,
                                  renCall.rename_input_output,
                                  renCall.add_input_output)
       IN  renCall' = [renCall EXCEPT !.pc = "again",
                           !.ret2 = Deref(r.heap, r.list)]
    /\ UNCHANGED <<rnCall, spaceVars, ctor, cfg>>

-----------------------------------------------------------------------------
(* Specifications *)

\* random_neighbor alone.
NextRandomNeighbor == RandomNeighborCall

SpecRandomNeighbor == InitRandomNeighbor /\ [][NextRandomNeighbor]_vars

\* rename_dag_node_list alone.
NextRename == RenameCall \/ RenameAgain

SpecRename == InitRename /\ [][NextRename]_vars

-----------------------------------------------------------------------------
(* Properties of random_neighbor *)

\* The position of v in the sorted domain, 1-based: the number of domain
\* values that are at most v.
PosInDomain(d, v) == Cardinality({x \in Range(d) : x <= v})

\* v is an anchor of the call: the current value if it is in the domain,
\* else a domain value of least distance to it.
IsAnchor(d, c, v) ==
    /\ v \in Range(d)
    /\ c \in Range(d) => v = c
    /\ \A x \in Range(d) : Abs(v - c) <= Abs(x - c)

\* C3: random_neighbor never raises on a non-empty domain of distinct
\* integers, whatever the current value, and returns a domain value whose
\* position in the sorted domain is at most one step from the anchor (the
\* current value's position if it is in the domain, else the position of a
\* domain value closest to it).
C3_TotalAndClosed ==
    rnCall.pc = "done" =>
        /\ ~rnCall.raised
        /\ rnCall.value \in Range(rnCall.param_values)
        /\ \E v \in Range(rnCall.param_values) :
              /\ IsAnchor(rnCall.param_values, rnCall.current_value, v)
              /\ Abs(PosInDomain(rnCall.param_values, rnCall.value)
                     - PosInDomain(rnCall.param_values, v)) <= 1

\* C3's case: a domain of size 1 and a current value outside it.
C3_Witness ==
    /\ rnCall.pc = "done"
    /\ Len(rnCall.param_values) = 1
    /\ rnCall.current_value \notin Range(rnCall.param_values)
    /\ rnCall.value = rnCall.param_values[1]

\* The current value is a domain value with a neighbour on both sides.
HasBothNeighbours(d, c) ==
    /\ c \in Range(d)
    /\ \E x \in Range(d) : x < c
    /\ \E x \in Range(d) : x > c

\* C4: for the domain [8, 16, 24] and the current value 16 the result is 8 or
\* 24, never 16; for the domain [8] it is 8; a current value with a neighbour
\* on both sides is never returned itself.
C4_NeverCurrentValue ==
    rnCall.pc = "done" =>
        /\ (rnCall.param_values = <<8, 16, 24>> /\ rnCall.current_value = 16)
              => rnCall.value \in {8, 24}
        /\ rnCall.param_values = <<8>> => rnCall.value = 8
        /\ HasBothNeighbours(rnCall.param_values, rnCall.current_value)
              => rnCall.value # rnCall.current_value

-----------------------------------------------------------------------------
(* Properties of rename_dag_node_list *)

NodeNames(nodes) == {nodes[i].name : i \in 1..Len(nodes)}

\* Every name in a node's inputs is the name of a node of the list.
NoDanglingInput(nodes) ==
    \A i \in 1..Len(nodes) : Range(nodes[i].inputs) \subseteq NodeNames(nodes)

\* C5: every name that is left in a node's inputs in the list
\* rename_dag_node_list returns is the name of a node of that list, for every
\* node list, prefix and pair of flags.
C5_NoDanglingInput ==
    renCall.pc = "done" => NoDanglingInput(renCall.ret)

\* C5 where the endpoints are renamed like every other node
\* (rename_input_output = True): no input is left dangling.
C5_NoDanglingWhenRenamed ==
    (renCall.pc = "done" /\ renCall.rename_input_output)
        => NoDanglingInput(renCall.ret)

\* The names of the list are distinct and every input of a node names a node
\* at a strictly lower position.
TopoUnique(nodes) ==
    /\ \A i, j \in 1..Len(nodes) : i # j => nodes[i].name # nodes[j].name
    /\ \A i \in 1..Len(nodes) :
          \A k \in 1..Len(nodes[i].inputs) :
              \E j \in 1..(i - 1) : nodes[j].name = nodes[i].inputs[k]

\* C6: for a topologically ordered list L with distinct names, renaming
\* rename_dag_node_list(L, ...) again with the same prefix and flags returns
\* an equal list: same names, same inputs, same order.
C6_Idempotent ==
    (renCall.pc = "again" /\ TopoUnique(renCall.node_list))
        => renCall.ret2 = renCall.ret

\* C6's case: a list of two nodes, the second fed by the first, that the
\* first call renamed and the second call was given.
C6_Witness ==
    /\ renCall.pc = "again"
    /\ TopoUnique(renCall.node_list)
    /\ Len(renCall.node_list) >= 2
    /\ \E i \in 1..Len(renCall.ret) : renCall.ret[i].inputs # <<>>
    /\ renCall.ret # renCall.node_list
    /\ renCall.prefix # ""

\* C7: after the call the caller's list and its nodes (name, op, scale,
\* inputs) are what they were, and no node of the returned list is a node of
\* the argument.
C7_ArgumentUnchanged ==
    renCall.pc # "call" =>
        /\ renCall.arg_after = renCall.node_list
        /\ ~renCall.shares

\* C7's case: a call that renamed a node and rewrote its inputs in the copy.
C7_Witness ==
    /\ renCall.pc = "done"
    /\ \E i \in 1..Len(renCall.ret) :
          /\ renCall.ret[i].name # renCall.node_list[i].name
          /\ renCall.ret[i].inputs # renCall.node_list[i].inputs

-----------------------------------------------------------------------------
(* DiscreteSearchSpaceSegmentation: the configuration, lines 73-139 *)

\* self.operations, lines 98-104: the keys of OPS the operator subset keeps.
Operations == <<"conv", "pool">>

\* self.base_channels_list, line 128: more than one value (line 130).
BaseChannelsList == <<8, 16>>

\* self.delta_channels_list, line 132: at least one value (line 135).
DeltaChannelsList == <<8>>

\* self.post_upsample_layers_list, line 125: range(1, max + 1).
PostUpsampleLayersList == <<1>>

\* self.datasetname, line 95.
DatasetName == "dataset"

\* max_inputs, line 222.
MaxInputs == 3

\* The (min_mac, max_mac) of the search spaces: line 110 lets min_mac equal
\* max_mac.
MacBounds == {<<1, 3>>, <<2, 2>>}

\* The costs (model_stats.MAdd) the measurement can report.
Costs == {1, 2, 3}

\* The test with the bounds included.
WithinMacsInclusive(madd, sp) == madd >= sp.min_mac /\ madd <= sp.max_mac

\* Lines 169 and 261: the test of the cost against the bounds.
WithinMacs(madd, sp) == madd > sp.min_mac /\ madd < sp.max_mac

-----------------------------------------------------------------------------
(* The compiled architecture (SegmentationNasModel) and ArchWithMetaData *)

\* SegmentationNasModel(graph, channels_per_scale, post_upsample_layers) once
\* its constructor has returned; validated tells that validate_forward ran on
\* it and returned the expected shape.
NasModel(graph, channels_per_scale, post_upsample_layers) ==
    [graph |-> graph, channels_per_scale |-> channels_per_scale,
     post_upsample_layers |-> post_upsample_layers, validated |-> FALSE]

\* model.to_hash(): a content hash, here the content itself.
ToHash(model) ==
    <<model.graph, model.channels_per_scale, model.post_upsample_layers>>

\* model.edge_dict: one key 'orig-dest' per input orig of a node dest.
EdgeDict(model) ==
    UNION {{<<model.graph[i].inputs[k], model.graph[i].name>> :
                k \in 1..Len(model.graph[i].inputs)} :
           i \in 1..Len(model.graph)}

\* ArchWithMetaData(model, metadata).
ArchWithMetaData(model, metadata) == [arch |-> model, metadata |-> metadata]

\* What the compiler does with a graph: the constructor raises, or it
\* returns and validate_forward raises (or returns another shape, which the
\* assert of line 251 turns into an error), or both succeed.
CompilerOutcomes == {"construct_raises", "validate_raises", "ok"}

\* load_from_graph, lines 315-326, when the constructor returns: the
\* architecture, on which validate_forward did not run.
LoadFromGraph(graph, channels_per_scale, post_upsample_layers) ==
    LET model == NasModel(graph, channels_per_scale, post_upsample_layers)
    IN  ArchWithMetaData(model, [datasetname |-> DatasetName,
                                 archid |-> ToHash(model),
                                 parent |-> None])

-----------------------------------------------------------------------------
(* The architectures the caller starts from *)

\* Three nodes: one interior node of scale 2.
GraphA ==
    <<MkNode("input", "conv", 1, <<>>),
      MkNode("layer_1", "conv", 2, <<"input">>),
      MkNode("output", "conv", 1, <<"layer_1">>)>>

\* Four nodes of three scales: interior nodes of scale 4 and 2, input and
\* layer_1 feed two nodes each.
GraphB ==
    <<MkNode("input", "conv", 1, <<>>),
      MkNode("layer_1", "pool", 4, <<"input">>),
      MkNode("layer_2", "conv", 2, <<"input", "layer_1">>),
      MkNode("output", "conv", 1, <<"layer_1", "layer_2">>)>>

\* Two nodes: no interior node.
GraphZ ==
    <<MkNode("input", "conv", 1, <<>>),
      MkNode("output", "conv", 1, <<"input">>)>>

\* Three nodes: one interior node, of a scale no node of GraphA or GraphB has.
GraphC ==
    <<MkNode("input", "conv", 1, <<>>),
      MkNode("layer_1", "pool", 8, <<"input">>),
      MkNode("output", "conv", 1, <<"layer_1">>)>>

SeedGraphs == {GraphA, GraphB, GraphC, GraphZ}

SeedChannels == [base_channels |-> 8, delta_channels |-> 8, mult_delta |-> FALSE]

\* The architectures load_from_graph returns for the seed graphs.
SeedArchs == {LoadFromGraph(g, SeedChannels, 1) : g \in SeedGraphs}

\* The caller holds two architectures.
Slots == {1, 2}

-----------------------------------------------------------------------------
(* The operator calls *)

\* The largest patience of a call, and the longest graph the caller keeps.
MaxPatience == 2

MaxKeptNodes == 4

\* The locals of the operator that runs.  An Optional is a sequence of
\* length 0 (None) or 1.
CallIdle ==
    [op |-> "idle", pc |-> "idle", base |-> 0, patience |-> 0, nb_tries |-> 0,
     neighbors |-> <<>>, nbr_bound |-> FALSE, graph |-> <<>>,
     channels_per_scale |-> <<>>, post_upsample_layers |-> 0,
     left |-> 0, left_g |-> <<>>, right_g |-> <<>>, left_n |-> <<>>,
     right_n |-> <<>>, left_pivot_idx |-> 0, right_pivot_idx |-> 0,
     result_g |-> <<>>, result |-> <<>>, error |-> ""]

\* The caller starts from two seed architectures in a search space whose
\* bounds passed line 110.
Init ==
    /\ \E b \in MacBounds : space = [min_mac |-> b[1], max_mac |-> b[2]]
    /\ pop \in [Slots -> SeedArchs]
    /\ call = CallIdle
    /\ rnCall = RnIdle
    /\ renCall = RenIdle
    /\ ctor = CtorIdle
    /\ cfg = CfgIdle

-----------------------------------------------------------------------------
(* random_sample, lines 143-180 *)

\* Lines 143-146.
RandomSampleEnter ==
    /\ call.op = "idle"
    /\ call' = [CallIdle EXCEPT !.op = "random_sample", !.pc = "loop"]
    /\ UNCHANGED <<space, pop, helperVars>>

\* One round of the loop of line 147: sample_model returns a graph with
\* channels and a layer count of the configured lists, the cost is measured
\* (the measurement may raise: nothing catches it) and tested, arch_meta is
\* built; the loop ends when the cost passed.
RandomSampleIterate ==
    /\ call.op = "random_sample"
    /\ call.pc = "loop"
    /\ \/ call' = [call EXCEPT !.pc = "raised", !.error = "MeasurementError"]
       \/ \E g \in SeedGraphs, bc \in Range(BaseChannelsList),
             dc \in Range(DeltaChannelsList), pul \in Range(PostUpsampleLayersList),
             madd \in Costs :
             LET model == NasModel(g, [base_channels |-> bc, delta_channels |-> dc,
                                       mult_delta |-> FALSE], pul)
                 found_valid == WithinMacs(madd, space)
                 arch_meta == ArchWithMetaData(model,
                                  [datasetname |-> DatasetName,
                                   archid |-> ToHash(model),
                                   parent |-> None,
                                   macs |-> madd])
             IN  call' = [call EXCEPT
                              !.pc = IF found_valid THEN "returned" ELSE "loop",
                              !.result = IF found_valid THEN <<arch_meta>> ELSE <<>>]
    /\ UNCHANGED <<space, pop, helperVars>>

-----------------------------------------------------------------------------
(* get_neighbors, lines 184-272 *)

\* Samples that may hold the chosen node itself.
InputSamplesAnyNode(chosen_node_idx) ==
    {s \in InjSeqsUpTo(0..chosen_node_idx, Min2(chosen_node_idx, MaxInputs)) :
        Len(s) >= 1}

\* random.sample(range(chosen_node_idx), k) for k = min(chosen_node_idx,
\* random.randint(1, max_inputs)), lines 229-230: k distinct source indices,
\* in the order drawn.
InputSamples(chosen_node_idx) ==
    {s \in InjSeqsUpTo(0..(chosen_node_idx - 1), Min2(chosen_node_idx, MaxInputs)) :
        Len(s) >= 1}

\* Line 226: out_degree(x), over the edges of the base model.
OutDegree(edges, x) == Cardinality({e \in edges : e[1] = x})

\* A mutation that writes to the node of the base model at chosen_node_idx,
\* not to its copy.
MutateNodeOfBase(h, graph, edges, chosen_node_idx, new_op, input_idxs) ==
    LET node == h[chosen_node_idx + 1]
        node1 == IF node.name # "output" THEN [node EXCEPT !.op = new_op] ELSE node
        retained == SelectSeq(node1.inputs, LAMBDA inp : OutDegree(edges, inp) <= 1)
        picked == [j \in 1..Len(input_idxs) |-> h[graph[input_idxs[j] + 1]].name]
        added == SelectSeq(picked, LAMBDA nm : nm \notin Range(retained))
    IN  [h EXCEPT ![chosen_node_idx + 1] = [node1 EXCEPT !.inputs = retained \o added]]

\* Lines 216-239 on the copied graph: the node at chosen_node_idx gets the
\* operation new_op (unless it is the output node) and, unless it is the
\* input node, keeps its inputs of out-degree at most 1 and is given the
\* nodes at input_idxs that it does not list yet.
MutateNode(h, graph, edges, chosen_node_idx, new_op, input_idxs) ==
    LET a == graph[chosen_node_idx + 1]
        node == h[a]
        node1 == IF node.name # "output" THEN [node EXCEPT !.op = new_op] ELSE node
        retained == SelectSeq(node1.inputs, LAMBDA inp : OutDegree(edges, inp) <= 1)
        picked == [j \in 1..Len(input_idxs) |-> h[graph[input_idxs[j] + 1]].name]
        added == SelectSeq(picked, LAMBDA nm : nm \notin Range(retained))
        node2 == IF node1.name # "input"
                 THEN [node1 EXCEPT !.inputs = retained \o added]
                 ELSE node1
    IN  [h EXCEPT ![a] = node2]

\* Lines 189 and 272: the loop goes on while no neighbor was found and tries
\* are left; then the list is returned.
GetNeighborsLoopTest(c) ==
    IF c.nb_tries < c.patience /\ Len(c.neighbors) = 0
    THEN [c EXCEPT !.pc = "loop"]
    ELSE [c EXCEPT !.pc = "returned"]

\* Lines 184-189: get_neighbors(base_model, patience) on the architecture of
\* one of the slots.
GetNeighborsEnter ==
    /\ call.op = "idle"
    /\ \E slot \in Slots, patience \in 0..MaxPatience :
          call' = GetNeighborsLoopTest(
                      [CallIdle EXCEPT !.op = "get_neighbors",
                                       !.base = slot, !.patience = patience])
    /\ UNCHANGED <<space, pop, helperVars>>

\* Lines 190-239: in the loop, a candidate is built from copies
\* of the base model's graph and channels.  The base model's nodes are at the
\* addresses 1..n; what they hold after the round is written back to pop.
GetNeighborsMutate ==
    /\ call.op = "get_neighbors"
    /\ call.pc = "loop"
    /\ LET base == pop[call.base].arch
           n == Len(base.graph)
           arg == AddrsFrom(0, n)
           copy == DeepCopy(HeapOf(base.graph), arg)
       IN  IF ~(n > 1 /\ copy.heap[copy.list[n]].name = "output"
                      /\ copy.heap[copy.list[1]].name = "input")
           THEN /\ call' = [call EXCEPT !.pc = "raised", !.nb_tries = @ + 1,
                                        !.error = "AssertionError"]
                /\ UNCHANGED pop
           ELSE \E bc \in RandomNeighbor(BaseChannelsList,
                                         base.channels_per_scale.base_channels),
                   dc \in RandomNeighbor(DeltaChannelsList,
                                         base.channels_per_scale.delta_channels),
                   pul \in RandomNeighbor(PostUpsampleLayersList,
                                          base.post_upsample_layers),
                   chosen_node_idx \in 1..(n - 1),
                   new_op \in Range(Operations) :
                  \E input_idxs \in InputSamples(chosen_node_idx) :
                     LET h == MutateNode(copy.heap, copy.list, EdgeDict(base),
                                         chosen_node_idx, new_op, input_idxs)
                     IN  /\ call' = [call EXCEPT
                                !.pc = "compile",
                                !.nb_tries = @ + 1,
                                !.graph = Deref(h, copy.list),
                                !.channels_per_scale =
                                    [base_channels |-> bc, delta_channels |-> dc,
                                     mult_delta |-> base.channels_per_scale.mult_delta],
                                !.post_upsample_layers = pul]
                         /\ pop' = [pop EXCEPT ![call.base].arch.graph = Deref(h, arg)]
    /\ UNCHANGED <<space, helperVars>>

\* Lines 241-272: the candidate is compiled, validated, measured and tested,
\* and the loop test is made again.
\* The handler of line 253 reads nbr_model, which is bound only once a
\* constructor call of this get_neighbors call has returned.
GetNeighborsCompile ==
    /\ call.op = "get_neighbors"
    /\ call.pc = "compile"
    /\ \E outcome \in CompilerOutcomes :
          \/ /\ outcome = "construct_raises"
             /\ call' = IF call.nbr_bound
                        THEN GetNeighborsLoopTest([call EXCEPT !.graph = <<>>])
                        ELSE [call EXCEPT !.pc = "raised", !.graph = <<>>,
                                          !.error = "UnboundLocalError"]
          \/ /\ outcome = "validate_raises"
             /\ call' = GetNeighborsLoopTest(
                            [call EXCEPT !.graph = <<>>, !.nbr_bound = TRUE])
          \/ /\ outcome = "ok"
             /\ \/ call' = [call EXCEPT !.pc = "raised", !.graph = <<>>,
                                        !.nbr_bound = TRUE,
                                        !.error = "MeasurementError"]
                \/ \E madd \in Costs :
                      LET nbr_model ==
                              [NasModel(call.graph, call.channels_per_scale,
                                        call.post_upsample_layers)
                                  EXCEPT !.validated = TRUE]
                          nbr == ArchWithMetaData(nbr_model,
                                     [datasetname |-> DatasetName,
                                      archid |-> ToHash(nbr_model),
                                      parent |-> pop[call.base].metadata.archid,
                                      macs |-> madd])
                      IN  call' = GetNeighborsLoopTest(
                                [call EXCEPT
                                    !.graph = <<>>,
                                    !.nbr_bound = TRUE,
                                    !.neighbors =
                                        IF WithinMacs(madd, space)
                                        THEN @ \o <<nbr>> ELSE @])
    /\ UNCHANGED <<space, pop, helperVars>>

-----------------------------------------------------------------------------
(* crossover, lines 337-433 *)

NamesOf(nodes) == [i \in 1..Len(nodes) |-> nodes[i].name]

\* The other of the caller's two slots.
OtherSlot(slot) == CHOOSE s \in Slots : s # slot

\* Candidates of any scale: the interior right nodes.
RightCandidatesAnyScale(left_g, right_g, right_n, left_pivot_idx) ==
    {i \in 0..(Len(right_g) - 1) : 0 < i /\ i < Len(right_n) - 1}

\* Lines 366-371: the interior right nodes (source indices) of the scale of
\* the left pivot.
RightCandidates(left_g, right_g, right_n, left_pivot_idx) ==
    {i \in 0..(Len(right_g) - 1) :
        /\ right_g[i + 1].scale = left_g[left_pivot_idx + 1].scale
        /\ 0 < i /\ i < Len(right_n) - 1}

\* A repair that takes any left_half node, whatever its scale.
RECURSIVE RepairedInputsAnyLeft(_, _, _, _, _, _)
RepairedInputsAnyLeft(inputs, left_half, right_g, right_n, right_pivot_idx, k) ==
    IF k > Len(inputs) THEN {inputs}
    ELSE LET inp == inputs[k]
             kept == {right_n[i] : i \in (right_pivot_idx + 1)..Len(right_n)}
             choices == IF inp \in kept THEN {inp}
                        ELSE {left_half[i].name : i \in 1..Len(left_half)}
         IN  UNION {RepairedInputsAnyLeft([inputs EXCEPT ![k] = c], left_half,
                                          right_g, right_n, right_pivot_idx, k + 1) :
                    c \in choices}

\* Lines 386-400 for one node: every list its inputs can become.  An input
\* that is no name of right_n[right_pivot_idx:] is replaced by the name of a
\* left_half node of the scale of the right node it named (any of them), by
\* None when there is none.
RECURSIVE RepairedInputs(_, _, _, _, _, _)
RepairedInputs(inputs, left_half, right_g, right_n, right_pivot_idx, k) ==
    IF k > Len(inputs) THEN {inputs}
    ELSE LET inp == inputs[k]
             kept == {right_n[i] : i \in (right_pivot_idx + 1)..Len(right_n)}
             idx == CHOOSE i \in 1..Len(right_n) :
                        /\ right_n[i] = inp
                        /\ \A j \in (i + 1)..Len(right_n) : right_n[j] # inp
             candidates == {left_half[i].name : i \in
                               {j \in 1..Len(left_half) :
                                   left_half[j].scale = right_g[idx].scale}}
             choices == IF inp \in kept THEN {inp}
                        ELSE IF candidates # {} THEN candidates
                        ELSE {None}
         IN  UNION {RepairedInputs([inputs EXCEPT ![k] = c], left_half, right_g,
                                   right_n, right_pivot_idx, k + 1) :
                    c \in choices}

\* Lines 385-400: every heap the loop over right_half[::-1] can leave, from
\* the node at position k of right_half down to its first node.
RECURSIVE RepairedHeaps(_, _, _, _, _, _, _)
RepairedHeaps(h, left_half, right_half, right_g, right_n, right_pivot_idx, k) ==
    IF k = 0 THEN {h}
    ELSE UNION {RepairedHeaps([h EXCEPT ![right_half[k]].inputs = inputs],
                              left_half, right_half, right_g, right_n,
                              right_pivot_idx, k - 1) :
                inputs \in RepairedInputs(h[right_half[k]].inputs,
                                          Deref(h, left_half), Deref(h, right_g),
                                          right_n, right_pivot_idx, 1)}

\* Lines 402-407: the last node of right_half is named output and the left
\* pivot is made an input of its first node.
ConnectHalves(h, right_half, left_pivot) ==
    LET h1 == [h EXCEPT ![right_half[Len(right_half)]].name = "output"]
        first == right_half[1]
    IN  IF left_pivot \notin Range(h1[first].inputs)
        THEN [h1 EXCEPT ![first].inputs = Append(@, left_pivot)]
        ELSE h1

\* A loop test that looks at the tries only.
CrossoverLoopTestTriesOnly(c) ==
    IF c.nb_tries < c.patience THEN [c EXCEPT !.pc = "loop"]
    ELSE IF c.result_g # <<>> THEN [c EXCEPT !.pc = "build"]
    ELSE [c EXCEPT !.pc = "returned"]

\* Lines 356 and 412: the loop goes on while there is no result_g and tries
\* are left; with a result_g the architecture is built, without one the
\* method ends and None is returned.
CrossoverLoopTest(c) ==
    IF c.result_g = <<>> /\ c.nb_tries < c.patience
    THEN [c EXCEPT !.pc = "loop"]
    ELSE IF c.result_g # <<>> THEN [c EXCEPT !.pc = "build"]
    ELSE [c EXCEPT !.pc = "returned"]

\* Lines 340-356: model_1 is in slot 1, model_2 in slot 2; one of them is
\* made the left model.  The two graphs are renamed; a graph of at most two
\* nodes ends the call.  The models' nodes are at the addresses 1..nl and
\* nl + 1..nl + nr; what they hold after the step is written back to pop.
CrossoverEnter ==
    /\ call.op = "idle"
    /\ \E left \in Slots, patience \in 0..MaxPatience :
          LET right == OtherSlot(left)
              nl == Len(pop[left].arch.graph)
              nr == Len(pop[right].arch.graph)
              argl == AddrsFrom(0, nl)
              argr == AddrsFrom(nl, nr)
              h0 == HeapOf(pop[left].arch.graph \o pop[right].arch.graph)
              rl == RenameDagNodeList(h0, argl, "left", TRUE, FALSE)
              rr == RenameDagNodeList(rl.heap, argr, "right", TRUE, FALSE)
              left_g == Deref(rr.heap, rl.list)
              right_g == Deref(rr.heap, rr.list)
              c == [CallIdle EXCEPT
                       !.op = "crossover",
                       !.patience = patience, !.left = left,
                       !.left_g = left_g, !.right_g = right_g,
                       !.left_n = NamesOf(left_g), !.right_n = NamesOf(right_g)]
          IN  /\ call' = IF Len(left_g) <= 2 \/ Len(right_g) <= 2
                         THEN [c EXCEPT !.pc = "returned"]
                         ELSE CrossoverLoopTest(c)
              /\ pop' = [pop EXCEPT ![left].arch.graph = Deref(rr.heap, argl),
                                    ![right].arch.graph = Deref(rr.heap, argr)]
    /\ UNCHANGED <<space, helperVars>>

\* Lines 356-410: one round of the loop and the loop test after it.  left_g and right_g become copies;
\* with a right pivot the halves (nodes of the copies) are repaired, joined
\* and renamed into result_g.  The pivot indices are kept from the round
\* that built result_g on (in a round without one they are not read again).
CrossoverAttempt ==
    /\ call.op = "crossover"
    /\ call.pc = "loop"
    /\ LET nl == Len(call.left_g)
           nr == Len(call.right_g)
           h0 == HeapOf(call.left_g \o call.right_g)
           cl == DeepCopy(h0, AddrsFrom(0, nl))
           cr == DeepCopy(cl.heap, AddrsFrom(nl, nr))
       IN  \E left_pivot_idx \in 1..(Len(call.left_n) - 2) :
              LET left_pivot == call.left_n[left_pivot_idx + 1]
                  right_candidates ==
                      RightCandidates(Deref(cr.heap, cl.list), Deref(cr.heap, cr.list),
                                      call.right_n, left_pivot_idx)
              IN  IF right_candidates = {}
                  THEN call' = CrossoverLoopTest(
                                   [call EXCEPT
                                       !.nb_tries = @ + 1,
                                       !.left_g = Deref(cr.heap, cl.list),
                                       !.right_g = Deref(cr.heap, cr.list)])
                  ELSE \E right_pivot_idx \in right_candidates :
                          LET left_half == SubSeq(cl.list, 1, left_pivot_idx + 1)
                              right_half == SubSeq(cr.list, right_pivot_idx + 1, nr)
                          IN  \E h1 \in RepairedHeaps(cr.heap, left_half, right_half,
                                                      cr.list, call.right_n,
                                                      right_pivot_idx, Len(right_half)) :
                                 LET h2 == ConnectHalves(h1, right_half, left_pivot)
                                     r == RenameDagNodeList(h2, left_half \o right_half,
                                                            "", TRUE, TRUE)
                                 IN  call' = CrossoverLoopTest(
                                         [call EXCEPT
                                             !.nb_tries = @ + 1,
                                             !.left_g = Deref(r.heap, cl.list),
                                             !.right_g = Deref(r.heap, cr.list),
                                             !.left_pivot_idx = left_pivot_idx,
                                             !.right_pivot_idx = right_pivot_idx,
                                             !.result_g = <<Deref(r.heap, r.list)>>])
    /\ UNCHANGED <<space, pop, helperVars>>

\* What the constructor of load_from_graph (line 317) does.
ConstructorOutcomes == {"construct_raises", "ok"}

\* Lines 412-433: result_g is a (non-empty) list; channels and layer count
\* are taken from the left or the right model, load_from_graph builds the
\* model (its constructor may raise: nothing catches it) and the parents are
\* recorded.  archid + ',' + archid is the triple of its three parts.
CrossoverBuild ==
    /\ call.op = "crossover"
    /\ call.pc = "build"
    /\ LET left_m == pop[call.left]
           right_m == pop[OtherSlot(call.left)]
       IN  \E ch_map \in {left_m.arch.channels_per_scale,
                          right_m.arch.channels_per_scale},
              post_upsample_layers \in {left_m.arch.post_upsample_layers,
                                        right_m.arch.post_upsample_layers},
              outcome \in ConstructorOutcomes :
              IF call.result_g[1] = <<>>
              THEN call' = [call EXCEPT !.pc = "returned"]
              ELSE IF outcome = "construct_raises"
              THEN call' = [call EXCEPT !.pc = "raised",
                                        !.error = "StructuralError"]
              ELSE LET loaded ==
                           LoadFromGraph(call.result_g[1],
                               [base_channels |-> ch_map.base_channels,
                                delta_channels |-> ch_map.delta_channels,
                                mult_delta |-> ch_map.mult_delta],
                               post_upsample_layers)
                       parents == <<left_m.metadata.archid, ",",
                                    right_m.metadata.archid>>
                   IN  call' = [call EXCEPT
                           !.pc = "returned",
                           !.result =
                               <<[loaded EXCEPT !.metadata =
                                    [datasetname |-> loaded.metadata.datasetname,
                                     archid |-> loaded.metadata.archid,
                                     parent |-> loaded.metadata.parent,
                                     parents |-> parents]]>>]
    /\ UNCHANGED <<space, pop, helperVars>>

-----------------------------------------------------------------------------
(* The caller *)

\* What the call returned, as the architectures among it.
Returned ==
    IF call.pc # "returned" THEN <<>>
    ELSE IF call.op = "get_neighbors" THEN call.neighbors
    ELSE call.result

\* The slot the caller puts offspring in (the last one); the other one
\* keeps its seed.
OffspringSlot == CHOOSE s \in Slots : \A t \in Slots : t <= s

\* An architecture that has no parent: a seed, or one random_sample made.
IsSeed(a) ==
    /\ a.metadata.parent = None
    /\ "parents" \notin DOMAIN a.metadata

\* The slots of the architectures the call was given.
Sources ==
    IF call.op = "get_neighbors" THEN {call.base}
    ELSE IF call.op = "crossover" THEN Slots
    ELSE {}

\* The caller puts an architecture the call returned in its offspring slot.
\* It keeps the children of seeds, and no graph longer than MaxKeptNodes:
\* the operators are applied to seeds and to children of seeds.
Keep ==
    /\ call.pc = "returned"
    /\ \A s \in Sources : IsSeed(pop[s])
    /\ \E i \in 1..Len(Returned) :
          /\ Len(Returned[i].arch.graph) <= MaxKeptNodes
          /\ pop' = [pop EXCEPT ![OffspringSlot] = Returned[i]]
    /\ call' = CallIdle
    /\ UNCHANGED <<space, helperVars>>

\* The caller drops what the call returned, or the error it raised.
Discard ==
    /\ call.pc \in {"returned", "raised"}
    /\ call' = CallIdle
    /\ UNCHANGED <<space, pop, helperVars>>

Next ==
    \/ RandomSampleEnter \/ RandomSampleIterate
    \/ GetNeighborsEnter \/ GetNeighborsMutate \/ GetNeighborsCompile
    \/ CrossoverEnter \/ CrossoverAttempt \/ CrossoverBuild
    \/ Keep \/ Discard

Spec == Init /\ [][Next]_vars

-----------------------------------------------------------------------------
(* Properties of the operators *)

\* A node list begins with input, ends with output, and every input of a
\* node names a node at a strictly lower position.
WellFormed(g) ==
    /\ Len(g) >= 1
    /\ g[1].name = "input"
    /\ g[Len(g)].name = "output"
    /\ \A i \in 1..Len(g) : \A k \in 1..Len(g[i].inputs) :
          \E j \in 1..(i - 1) : g[j].name = g[i].inputs[k]

\* C1: the architectures the caller holds begin with input, end with output
\* and have inputs that name strictly earlier nodes only, and so do every
\* candidate graph get_neighbors builds, every merged node list crossover
\* builds and every architecture an operator returns, whatever operators
\* made the architectures they are applied to.
C1_StructuralClosure ==
    /\ \A s \in Slots : WellFormed(pop[s].arch.graph)
    /\ (call.op = "get_neighbors" /\ call.pc = "compile") => WellFormed(call.graph)
    /\ call.result_g # <<>> => WellFormed(call.result_g[1])
    /\ \A i \in 1..Len(Returned) : WellFormed(Returned[i].arch.graph)

\* A neighbor that get_neighbors returned is held by the caller and crossover
\* has built a merged node list from it and a seed.
C1_Witness ==
    /\ pop[OffspringSlot].metadata.parent # None
    /\ call.op = "crossover"
    /\ call.result_g # <<>>
    /\ Len(call.result_g[1]) >= 4

\* A crossover child is held by the caller and get_neighbors has built a
\* candidate from it.
C1_WitnessMutatedChild ==
    /\ "parents" \in DOMAIN pop[OffspringSlot].metadata
    /\ call.op = "get_neighbors"
    /\ call.base = OffspringSlot
    /\ call.pc = "compile"

\* The architectures random_sample or get_neighbors has returned.
Measured ==
    IF call.op \in {"random_sample", "get_neighbors"} THEN Returned ELSE <<>>

\* C2: every architecture random_sample returns and every neighbor
\* get_neighbors returns records a cost strictly between min_mac and max_mac;
\* the same holds of the architectures the caller kept from them.
C2_CostStrictlyWithin ==
    /\ \A i \in 1..Len(Measured) :
          /\ "macs" \in DOMAIN Measured[i].metadata
          /\ space.min_mac < Measured[i].metadata.macs
          /\ Measured[i].metadata.macs < space.max_mac
    /\ \A s \in Slots :
          "macs" \in DOMAIN pop[s].metadata =>
              /\ space.min_mac < pop[s].metadata.macs
              /\ pop[s].metadata.macs < space.max_mac

\* The caller holds an architecture random_sample returned and get_neighbors
\* has returned a neighbor.
C2_Witness ==
    /\ "macs" \in DOMAIN pop[OffspringSlot].metadata
    /\ pop[OffspringSlot].metadata.parent = None
    /\ call.op = "get_neighbors"
    /\ call.pc = "returned"
    /\ Len(call.neighbors) = 1

\* C8, the parts that hold: at most patience attempts are made, get_neighbors
\* returns right after the first accepted neighbor (at most one), and with no
\* neighbor it returns only after exactly patience attempts.
C8_AttemptsAndNeighbors ==
    call.op = "get_neighbors" =>
        /\ call.nb_tries <= call.patience
        /\ Len(call.neighbors) <= 1
        /\ (call.pc = "loop" => Len(call.neighbors) = 0)
        /\ (call.pc = "returned" /\ Len(call.neighbors) = 0
               => call.nb_tries = call.patience)

\* C8: get_neighbors makes at most patience attempts, returns at most one
\* neighbor, and while every candidate so far has failed in the compiler or
\* the cost test it does not raise: it ends by returning the empty list
\* after exactly patience attempts.
C8_RetryBudget ==
    /\ C8_AttemptsAndNeighbors
    /\ call.op = "get_neighbors" => call.error # "UnboundLocalError"

\* C9: no error of the compiler (construction, validate_forward) or of the
\* cost measurement ends get_neighbors: each one leads to the next attempt.
C9_ErrorsBecomeRetries ==
    call.op = "get_neighbors" => call.pc # "raised"

\* C10: crossover raises no error of the construction, and the architecture
\* it returns was validated by the compiler.
C10_OnlyValidatedResults ==
    call.op = "crossover" =>
        /\ call.pc # "raised"
        /\ \A i \in 1..Len(Returned) : Returned[i].arch.validated

\* C10, the second part alone: what crossover returns was validated.
C10_ReturnedIsValidated ==
    call.op = "crossover" =>
        \A i \in 1..Len(Returned) : Returned[i].arch.validated

-----------------------------------------------------------------------------
(* Properties of crossover *)

\* The scales of the interior nodes of a node list.
InteriorScales(g) == {g[i].scale : i \in 2..(Len(g) - 1)}

\* One of the two graphs crossover was given has at most two nodes.
ShortParent == Len(call.left_g) <= 2 \/ Len(call.right_g) <= 2

\* C11: crossover makes at most patience splice attempts and the loop runs
\* only while tries are left and no merged list exists; with a parent of at
\* most two nodes it returns nothing with no attempt; without a merged list
\* it returns nothing after exactly patience attempts (always so when the
\* parents share no interior scale, and with patience = 0); the first
\* attempt that builds a merged list ends the loop.
C11_CrossoverBudget ==
    call.op = "crossover" =>
        /\ call.nb_tries <= call.patience
        /\ call.pc = "loop" => (call.result_g = <<>> /\ call.nb_tries < call.patience)
        /\ call.result_g # <<>> => (call.pc # "loop" /\ call.nb_tries >= 1)
        /\ ShortParent =>
              /\ call.pc = "returned" /\ call.nb_tries = 0
              /\ call.result_g = <<>> /\ call.result = <<>>
        /\ (call.pc = "returned" /\ call.result = <<>> /\ ~ShortParent) =>
              (call.result_g = <<>> /\ call.nb_tries = call.patience)
        /\ InteriorScales(call.left_g) \cap InteriorScales(call.right_g) = {} =>
              call.result_g = <<>>

\* Every round of the loop of crossover counts as one try.
C11_EachRoundCounts ==
    [][(call.op = "crossover" /\ call.pc = "loop")
           => call'.nb_tries = call.nb_tries + 1]_vars

\* Two parents of three nodes with no common interior scale: crossover
\* has returned nothing after patience (at least two) attempts.
C11_Witness ==
    /\ call.op = "crossover"
    /\ call.pc = "returned"
    /\ ~ShortParent
    /\ InteriorScales(call.left_g) \cap InteriorScales(call.right_g) = {}
    /\ call.result = <<>>
    /\ call.nb_tries = call.patience
    /\ call.patience >= 2

\* The first of two allowed attempts has built a merged list.
C11_WitnessFirstAttempt ==
    /\ call.op = "crossover"
    /\ call.pc = "build"
    /\ call.nb_tries = 1
    /\ call.patience >= 2

\* C12: the architecture crossover(model_1, model_2) returns records as its
\* parents the archid of model_1 (slot 1), a comma, the archid of model_2
\* (slot 2), whichever of the two was made the left model.
C12_ParentsInCallOrder ==
    (call.op = "crossover" /\ call.pc = "returned") =>
        \A i \in 1..Len(call.result) :
            /\ "parents" \in DOMAIN call.result[i].metadata
            /\ call.result[i].metadata.parents =
                   <<pop[1].metadata.archid, ",", pop[2].metadata.archid>>

\* C12 as the code has it: the archid of the left model comes first.
C12_ParentsLeftThenRight ==
    (call.op = "crossover" /\ call.pc = "returned") =>
        \A i \in 1..Len(call.result) :
            /\ "parents" \in DOMAIN call.result[i].metadata
            /\ call.result[i].metadata.parents =
                   <<pop[call.left].metadata.archid, ",",
                     pop[OtherSlot(call.left)].metadata.archid>>

-----------------------------------------------------------------------------
(* __init__, lines 73-139 *)

\* len(range(start, stop, step)) for a step that is not 0.
PyRangeLen(start, stop, step) ==
    IF step > 0
    THEN (IF stop > start THEN (stop - start + step - 1) \div step ELSE 0)
    ELSE (IF stop < start THEN (start - stop + (-step) - 1) \div (-step) ELSE 0)

\* list(range(start, stop, step)) for a step that is not 0.
PyRange(start, stop, step) ==
    [i \in 1..PyRangeLen(start, stop, step) |-> start + (i - 1) * step]

\* OPS.keys(): the operators the compiler knows.
OpsKeys == <<"conv", "pool">>

\* A str is a sequence of tokens: a comma, or a piece without a comma.
\* str.split(','): the pieces between the commas; the empty str gives [''].
RECURSIVE StrSplitFrom(_, _, _)
StrSplitFrom(str, k, piece) ==
    IF k > Len(str) THEN <<piece>>
    ELSE IF str[k] = "," THEN <<piece>> \o StrSplitFrom(str, k + 1, "")
    ELSE StrSplitFrom(str, k + 1, piece \o str[k])

StrSplit(str) == StrSplitFrom(str, 1, "")

\* Line 99: op_subset.split(',') if op_subset is not None else [].  An
\* Optional argument is a sequence of length 0 (None) or 1.
OpSubsetList(op_subset) ==
    IF op_subset = <<>> THEN <<>> ELSE StrSplit(op_subset[1])

\* Lines 98-102: the operators, filtered when the subset list is not empty.
SelfOperations(op_subset) ==
    LET subset == OpSubsetList(op_subset)
    IN  IF subset # <<>>
        THEN SelectSeq(OpsKeys, LAMBDA op : op \in Range(subset))
        ELSE OpsKeys

\* Line 106: the default features when the argument is None or empty.
SelfEncoderFeatures(encoder_features) ==
    IF encoder_features = <<>> \/ encoder_features[1] = <<>>
    THEN <<"scale", "channels", "op">>
    ELSE encoder_features[1]

\* The arguments of __init__ that the model keeps at their defaults
\* (lines 79-82): the asserts of lines 117, 120 and 123 pass.
MaxDownsampleFactor == 16

MaxSkipConnectionLength == 3

MaxScaleDelta == 1

\* Lines 125-126: list(range(1, max_post_upsample_layers + 1)) and the
\* assert on its length.
PostUpsampleChecked(max_post_upsample_layers) ==
    LET l == PyRange(1, max_post_upsample_layers + 1, 1)
    IN  [list |-> l, ok |-> Len(l) < 5]

\* __init__(p): the statements of lines 94-139 in their order; the first
\* assert that fails, or range() with a step of 0, ends the construction.
Construct(p) ==
    LET operations == SelfOperations(p.op_subset)
        post == PostUpsampleChecked(p.max_post_upsample_layers)
        fail(e) == [raised |-> TRUE, error |-> e]
    IN  IF p.datasetname = "" THEN fail("AssertionError:96")
        ELSE IF ~(Len(operations) > 0) THEN fail("AssertionError:104")
        ELSE IF ~(p.min_mac <= p.max_mac) THEN fail("AssertionError:110")
        ELSE IF ~(p.min_layers <= p.max_layers) THEN fail("AssertionError:114")
        ELSE IF MaxDownsampleFactor \notin {2, 4, 8, 16} THEN fail("AssertionError:117")
        ELSE IF ~(MaxSkipConnectionLength > 0) THEN fail("AssertionError:120")
        ELSE IF MaxScaleDelta \notin {1, 2, 3} THEN fail("AssertionError:123")
        ELSE IF ~post.ok THEN fail("AssertionError:126")
        ELSE IF p.base_channels_binwidth = 0 THEN fail("ValueError:128")
        ELSE IF ~(p.min_base_channels <= p.max_base_channels)
             THEN fail("AssertionError:129")
        ELSE IF ~(PyRangeLen(p.min_base_channels, p.max_base_channels + 1,
                             p.base_channels_binwidth) > 1)
             THEN fail("AssertionError:130")
        ELSE IF p.delta_channels_binwidth = 0 THEN fail("ValueError:132")
        ELSE IF ~(p.min_delta_channels <= p.max_delta_channels)
             THEN fail("AssertionError:134")
        ELSE IF ~(PyRangeLen(p.min_delta_channels, p.max_delta_channels + 1,
                             p.delta_channels_binwidth) >= 1)
             THEN fail("AssertionError:135")
        ELSE [raised |-> FALSE, error |-> "",
              datasetname |-> p.datasetname,
              operations |-> operations,
              encoder_features |-> SelfEncoderFeatures(p.encoder_features),
              min_mac |-> p.min_mac, max_mac |-> p.max_mac,
              min_layers |-> p.min_layers, max_layers |-> p.max_layers,
              post_upsample_layers_list |-> post.list,
              base_channels_list |->
                  PyRange(p.min_base_channels, p.max_base_channels + 1,
                          p.base_channels_binwidth),
              delta_channels_list |->
                  PyRange(p.min_delta_channels, p.max_delta_channels + 1,
                          p.delta_channels_binwidth)]

-----------------------------------------------------------------------------
(* get_arch_repr, lines 275-313 *)

\* Line 277.
ScaleLevels == <<1, 2, 4, 8, 16>>

\* Line 280: one entry per category, 1 where it equals x.
Onehot(x, categories) ==
    [i \in 1..Len(categories) |-> IF categories[i] = x THEN 1 ELSE 0]

\* Lines 281-297: the feature groups that are enabled, in the order scale,
\* op, channels; a group is one row per node.  A channel value c / 64 is the
\* pair (c, 64).
FeatureGroups(sp, arch) ==
    LET g == arch.arch.graph
        ch_map == arch.arch.channels_per_scale
        scale == IF "scale" \in Range(sp.encoder_features)
                 THEN <<[i \in 1..Len(g) |-> Onehot(g[i].scale, ScaleLevels)]>>
                 ELSE <<>>
        op == IF "op" \in Range(sp.encoder_features)
              THEN <<[i \in 1..Len(g) |-> Onehot(g[i].op, sp.operations)]>>
              ELSE <<>>
        channels == IF "channels" \in Range(sp.encoder_features)
                    THEN <<[i \in 1..Len(g) |->
                              <<<<ch_map.base_channels, 64>>,
                                <<ch_map.delta_channels, 64>>>>]>>
                    ELSE <<>>
    IN  scale \o op \o channels

\* Only the first group is kept.
TorchCatFirstOnly(groups) ==
    IF groups = <<>> THEN [raised |-> TRUE, x |-> <<>>]
    ELSE [raised |-> FALSE, x |-> groups[1]]

\* The rows of the groups from the k-th on, joined row by row.
RECURSIVE JoinRows(_, _)
JoinRows(groups, k) ==
    IF k = Len(groups) THEN groups[k]
    ELSE LET rest == JoinRows(groups, k + 1)
         IN  [i \in 1..Len(groups[k]) |-> groups[k][i] \o rest[i]]

\* Line 300, torch.cat(tensors, axis=1): an error for an empty list,
\* else the matrices side by side.
TorchCat(groups) ==
    IF groups = <<>> THEN [raised |-> TRUE, x |-> <<>>]
    ELSE [raised |-> FALSE, x |-> JoinRows(groups, 1)]

\* Line 304: the (last) position, 0-based, of a node of that name.
NodeName2Idx(g, name) ==
    (CHOOSE i \in 1..Len(g) :
        g[i].name = name /\ \A j \in (i + 1)..Len(g) : g[j].name # name) - 1

\* The edges of the nodes from the k-th on, lines 305-309.
RECURSIVE EdgesFrom(_, _)
EdgesFrom(g, k) ==
    IF k > Len(g) THEN <<>>
    ELSE [j \in 1..Len(g[k].inputs) |->
              <<NodeName2Idx(g, g[k].inputs[j]), NodeName2Idx(g, g[k].name)>>]
         \o EdgesFrom(g, k + 1)

\* get_arch_repr(arch): the node features x, the edges (the columns of
\* edge_index) and the archid; or an error, of torch.cat, of the assert of
\* line 301 or of the lookup of line 306.
GetArchRepr(sp, arch) ==
    LET g == arch.arch.graph
        cat == TorchCat(FeatureGroups(sp, arch))
        known == \A k \in 1..Len(g) : \A j \in 1..Len(g[k].inputs) :
                     \E i \in 1..Len(g) : g[i].name = g[k].inputs[j]
    IN  IF cat.raised THEN [raised |-> TRUE, error |-> "RuntimeError:300"]
        ELSE IF Len(cat.x) # Len(g) THEN [raised |-> TRUE, error |-> "AssertionError:301"]
        ELSE IF ~known THEN [raised |-> TRUE, error |-> "KeyError:306"]
        ELSE [raised |-> FALSE, error |-> "", x |-> cat.x,
              edge_index |-> EdgesFrom(g, 1),
              archid |-> arch.metadata.archid]

-----------------------------------------------------------------------------
(* Construction of a search space, and get_arch_repr on it *)

\* The op_subset arguments: None, the empty str, one operator, two
\* operators, no operator of OPS.
OpSubsets ==
    {<<>>, <<<<>>>>, <<<<"conv">>>>, <<<<"pool", ",", "conv">>>>, <<<<"other">>>>}

\* The encoder_features arguments: None, the empty list, lists of groups,
\* a list of no known group.
EncoderFeatureLists ==
    {<<>>, <<<<>>>>, <<<<"scale">>>>, <<<<"op">>>>, <<<<"channels">>>>,
     <<<<"scale", "op">>>>, <<<<"other">>>>}

\* (min_mac, max_mac) and (min_layers, max_layers).
MacArgs == {<<1, 3>>, <<1, 2>>, <<2, 2>>, <<2, 1>>}

LayerArgs == {<<1, 2>>, <<2, 1>>}

\* max_post_upsample_layers.
MaxPostUpsampleArgs == {0, 1, 5}

\* (min, max, binwidth) of the base and of the delta channels.
BaseChannelArgs == {<<8, 16, 8>>, <<8, 8, 8>>, <<16, 8, 8>>, <<8, 16, 0>>}

DeltaChannelArgs == {<<8, 8, 8>>, <<16, 8, 8>>}

CtorArgs ==
    {[datasetname |-> d, encoder_features |-> e, op_subset |-> o,
      min_mac |-> m[1], max_mac |-> m[2],
      min_layers |-> l[1], max_layers |-> l[2],
      max_post_upsample_layers |-> u,
      min_base_channels |-> b[1], max_base_channels |-> b[2],
      base_channels_binwidth |-> b[3],
      min_delta_channels |-> dc[1], max_delta_channels |-> dc[2],
      delta_channels_binwidth |-> dc[3]] :
     d \in {DatasetName, ""}, e \in EncoderFeatureLists, o \in OpSubsets,
     m \in MacArgs, l \in LayerArgs, u \in MaxPostUpsampleArgs,
     b \in BaseChannelArgs, dc \in DeltaChannelArgs}

\* The state where __init__ is entered (and nothing else runs).
InitConstruct ==
    /\ \E p \in CtorArgs : ctor = [pc |-> "call", args |-> p]
    /\ rnCall = RnIdle
    /\ renCall = RenIdle
    /\ space = [min_mac |-> 0, max_mac |-> 0]
    /\ pop = <<>>
    /\ call = [op |-> "idle"]
    /\ cfg = CfgIdle

\* DiscreteSearchSpaceSegmentation(**args).
ConstructCall ==
    /\ ctor.pc = "call"
    /\ LET self == Construct(ctor.args)
       IN  ctor' = [pc |-> IF self.raised THEN "raised" ELSE "constructed",
                    args |-> ctor.args, self |-> self]
    /\ UNCHANGED <<rnCall, renCall, spaceVars, cfg>>

\* self.get_arch_repr(arch) for a seed architecture.
GetArchReprCall ==
    /\ ctor.pc = "constructed"
    /\ \E arch \in SeedArchs :
          ctor' = [pc |-> "encoded", args |-> ctor.args, self |-> ctor.self,
                   arch |-> arch, repr |-> GetArchRepr(ctor.self, arch)]
    /\ UNCHANGED <<rnCall, renCall, spaceVars, cfg>>

NextConstruct == ConstructCall \/ GetArchReprCall

SpecConstruct == InitConstruct /\ [][NextConstruct]_vars

\* The number of columns get_arch_repr is to give: 5 for scale, one per
\* operator for op, 2 for channels, for the groups that are enabled.
ExpectedColumns(sp) ==
    (IF "scale" \in Range(sp.encoder_features) THEN 5 ELSE 0)
    + (IF "op" \in Range(sp.encoder_features) THEN Len(sp.operations) ELSE 0)
    + (IF "channels" \in Range(sp.encoder_features) THEN 2 ELSE 0)

\* The input references of a graph as (predecessor, successor) index pairs.
ReferencePairs(g) ==
    UNION {{<<NodeName2Idx(g, g[k].inputs[j]), k - 1>> :
               j \in 1..Len(g[k].inputs)} : k \in 1..Len(g)}

\* C13: get_arch_repr gives one row per graph node, in graph order (the
\* scale columns of row i are those of node i), with 5 + the number of
\* operators + 2 columns over the enabled groups; the edges are the pairs
\* (predecessor index, successor index) of the input references, one per
\* reference; and the call fails when no column is enabled.
C13_ReprShapeAndEdges ==
    ctor.pc = "encoded" =>
        LET g == ctor.arch.arch.graph
            r == ctor.repr
            sp == ctor.self
        IN  /\ r.raised <=> ExpectedColumns(sp) = 0
            /\ ~r.raised =>
                  /\ Len(r.x) = Len(g)
                  /\ \A i \in 1..Len(g) : Len(r.x[i]) = ExpectedColumns(sp)
                  /\ "scale" \in Range(sp.encoder_features) =>
                        \A i \in 1..Len(g) :
                            SubSeq(r.x[i], 1, 5) = Onehot(g[i].scale, ScaleLevels)
                  /\ Range(r.edge_index) = ReferencePairs(g)
                  /\ Len(r.edge_index) =
                         Cardinality({p \in (1..Len(g)) \X (1..MaxInputs) :
                                         p[2] <= Len(g[p[1]].inputs)})

\* get_arch_repr has encoded the four-node seed with scale and op enabled
\* and one operator: 6 columns, 5 edges.
C13_Witness ==
    /\ ctor.pc = "encoded"
    /\ ~ctor.repr.raised
    /\ Len(ctor.arch.arch.graph) = 4
    /\ ctor.self.encoder_features = <<"scale", "op">>
    /\ Len(ctor.self.operations) = 1
    /\ Len(ctor.repr.edge_index) = 5

\* get_arch_repr has failed: no known feature group is enabled.
C13_WitnessNoColumn ==
    /\ ctor.pc = "encoded"
    /\ ctor.repr.raised

\* C14: a search space is constructed only with min_mac <= max_mac,
\* min_layers <= max_layers, at least one operator, at least two base
\* channel values, at least one delta channel value and at least one
\* post-upsample layer count; every other construction fails.
C14_DegenerateRejected ==
    ctor.pc \in {"constructed", "encoded"} =>
        /\ ctor.self.min_mac <= ctor.self.max_mac
        /\ ctor.self.min_layers <= ctor.self.max_layers
        /\ Len(ctor.self.operations) >= 1
        /\ Len(ctor.self.base_channels_list) >= 2
        /\ Len(ctor.self.delta_channels_list) >= 1
        /\ Len(ctor.self.post_upsample_layers_list) >= 1

\* C14 without the post-upsample layer counts.
C14_RejectedButPostUpsample ==
    ctor.pc \in {"constructed", "encoded"} =>
        /\ ctor.self.min_mac <= ctor.self.max_mac
        /\ ctor.self.min_layers <= ctor.self.max_layers
        /\ Len(ctor.self.operations) >= 1
        /\ Len(ctor.self.base_channels_list) >= 2
        /\ Len(ctor.self.delta_channels_list) >= 1

\* C19: every constructed search space has a cost that passes the test of
\* random_sample.  Costs are taken in halves of a unit: the cost c / 2
\* passes when 2 * min_mac < c < 2 * max_mac.
C19_SomeCostPasses ==
    ctor.pc \in {"constructed", "encoded"} =>
        \E c \in (2 * ctor.self.min_mac)..(2 * ctor.self.max_mac) :
            WithinMacs(c, [min_mac |-> 2 * ctor.self.min_mac,
                           max_mac |-> 2 * ctor.self.max_mac])

\* The merged node list of the crossover call, and the copies it was made of.
MergedList == call.result_g[1]

\* C15: when crossover has built a merged node list, the left and the right
\* pivot are interior nodes of their graphs with the same scale; the list is
\* the left nodes up to the left pivot followed by the right nodes from the
\* right pivot on (same operations and scales, in that order), so it has
\* left_pivot_idx + 1 + len(right) - right_pivot_idx >= 4 nodes; and the
\* node that was the left pivot is an input of the node that was the right
\* pivot.
C15_SpliceShape ==
    (call.op = "crossover" /\ call.result_g # <<>>) =>
        LET lp == call.left_pivot_idx
            rp == call.right_pivot_idx
            nl == Len(call.left_g)
            nr == Len(call.right_g)
        IN  /\ 0 < lp /\ lp < nl - 1
            /\ 0 < rp /\ rp < nr - 1
            /\ call.left_g[lp + 1].scale = call.right_g[rp + 1].scale
            /\ Len(MergedList) = lp + 1 + nr - rp
            /\ Len(MergedList) >= 4
            /\ \A i \in 1..(lp + 1) :
                  /\ MergedList[i].op = call.left_g[i].op
                  /\ MergedList[i].scale = call.left_g[i].scale
            /\ \A i \in (rp + 1)..nr :
                  /\ MergedList[lp + 1 + i - rp].op = call.right_g[i].op
                  /\ MergedList[lp + 1 + i - rp].scale = call.right_g[i].scale
            /\ MergedList[lp + 1].name \in Range(MergedList[lp + 2].inputs)

\* crossover has spliced a four-node left graph at its second interior node
\* with a three-node right graph: a merged list of five nodes.
C15_Witness ==
    /\ call.op = "crossover"
    /\ call.result_g # <<>>
    /\ call.left_pivot_idx = 2
    /\ call.right_pivot_idx = 1
    /\ Len(call.right_g) = 3
    /\ Len(MergedList) = 5

\* The right graph of the crossover call as line 344 made it from the
\* caller's architecture: the graph the splice starts from.
OriginalRightG ==
    LET g == pop[OtherSlot(call.left)].arch.graph
        r == RenameDagNodeList(HeapOf(g), AddrsFrom(0, Len(g)), "right", TRUE, FALSE)
    IN  Deref(r.heap, r.list)

\* The position (from 1) of a name in a list of names.
PositionOf(names, n) == CHOOSE j \in 1..Len(names) : names[j] = n

\* The names of right_n[right_pivot_idx:], and the name a node of one of the
\* halves has in the merged list.
RightHalfNames ==
    {call.right_n[j] : j \in (call.right_pivot_idx + 1)..Len(call.right_n)}

MergedNameOf(n) ==
    IF n \in RightHalfNames
    THEN MergedList[call.left_pivot_idx + 1
                    + PositionOf(call.right_n, n) - call.right_pivot_idx].name
    ELSE MergedList[PositionOf(call.left_n, n)].name

\* C16: in the merged node list every input of a right-half node that named
\* a right node before the right pivot is replaced by a left-half node of
\* the scale of the node it named, or removed; inputs that name nodes of the
\* right half are kept as they were (only the left pivot is added, to the
\* node that was the right pivot); and no input of the merged list names a
\* node that is not in the merged list.
C16_RepairedReferences ==
    (call.op = "crossover" /\ call.result_g # <<>>) =>
        LET lp == call.left_pivot_idx
            rp == call.right_pivot_idx
            nr == Len(call.right_g)
            left_pivot == call.left_n[lp + 1]
        IN  /\ \A i \in (rp + 1)..nr :
                  LET orig == OriginalRightG[i].inputs
                      repaired == call.right_g[i].inputs
                      left == SelectSeq(repaired, LAMBDA inp : inp # None)
                      merged == MergedList[lp + 1 + i - rp].inputs
                  IN  /\ \A k \in 1..Len(orig) :
                            IF orig[k] \in RightHalfNames
                            THEN repaired[k] = orig[k]
                            ELSE \/ repaired[k] = None
                                 \/ \E j \in 1..(lp + 1) :
                                       /\ repaired[k] = call.left_n[j]
                                       /\ call.left_g[j].scale =
                                             OriginalRightG[PositionOf(call.right_n,
                                                                       orig[k])].scale
                      /\ \/ Len(repaired) = Len(orig)
                         \/ /\ i = rp + 1
                            /\ repaired = Append(SubSeq(repaired, 1, Len(orig)),
                                                 left_pivot)
                      /\ merged = [k \in 1..Len(left) |-> MergedNameOf(left[k])]
            /\ NoDanglingInput(MergedList)

\* A merged list whose right half lost a reference: the right pivot named a
\* node before it of a scale no left-half node has, and the reference is
\* gone, while another one was replaced by a left-half node.
C16_Witness ==
    /\ call.op = "crossover"
    /\ call.result_g # <<>>
    /\ \E i \in (call.right_pivot_idx + 1)..Len(call.right_g) :
          /\ None \in Range(call.right_g[i].inputs)
          /\ \E k \in 1..Len(call.right_g[i].inputs) :
                /\ k <= Len(OriginalRightG[i].inputs)
                /\ OriginalRightG[i].inputs[k] \notin RightHalfNames
                /\ call.right_g[i].inputs[k] # None
          /\ Len(MergedList[call.left_pivot_idx + 1 + i
                            - call.right_pivot_idx].inputs)
                < Len(OriginalRightG[i].inputs) + 1

-----------------------------------------------------------------------------
(* Properties of the candidate of get_neighbors *)

\* The graph of the base model of the get_neighbors call.
BaseGraph == pop[call.base].arch.graph

\* The candidate is the base graph but for the node at position i (from 1),
\* which has the operation of the base node if it is the output node, and
\* whose inputs are those inputs of the base node that have out-degree at
\* most 1 in the base model, followed by the names, each once, of the nodes
\* of some 1 to 3 earlier positions that are not among them.
RewiredAt(i) ==
    LET old == BaseGraph[i]
        new == call.graph[i]
        retained == SelectSeq(old.inputs,
                        LAMBDA inp : OutDegree(EdgeDict(pop[call.base].arch), inp) <= 1)
        added == SubSeq(new.inputs, Len(retained) + 1, Len(new.inputs))
    IN  /\ \A j \in 1..Len(BaseGraph) : j # i => call.graph[j] = BaseGraph[j]
        /\ new.name = old.name /\ new.scale = old.scale
        /\ old.name = "output" => new.op = old.op
        /\ new.op \in Range(Operations)
        /\ Len(new.inputs) >= Len(retained)
        /\ SubSeq(new.inputs, 1, Len(retained)) = retained
        /\ \A j, k \in 1..Len(added) : j # k => added[j] # added[k]
        /\ Range(added) \cap Range(retained) = {}
        /\ \E picked \in SUBSET (1..(i - 1)) :
              /\ Cardinality(picked) \in 1..3
              /\ Range(added) = {BaseGraph[j].name : j \in picked} \ Range(retained)
        /\ Len(new.inputs) >= 1

\* The node at position i of the candidate differs from the base node in
\* operation or inputs.
DiffersAt(i) ==
    \/ call.graph[i].op # BaseGraph[i].op
    \/ call.graph[i].inputs # BaseGraph[i].inputs

\* C17: in every mutated candidate of get_neighbors exactly one node, never
\* the input node, differs from the base in operation or inputs; the
\* operation of the output node is not changed; the inputs of the mutated
\* node are its previous inputs of out-degree at most 1 in the base graph
\* plus 1 to 3 distinct earlier nodes, no name twice among the added and the
\* retained ones, so at least one input.
C17_ExactlyOneNodeRewired ==
    (call.op = "get_neighbors" /\ call.pc = "compile") =>
        /\ Len(call.graph) = Len(BaseGraph)
        /\ \E i \in 2..Len(BaseGraph) : RewiredAt(i) /\ DiffersAt(i)

\* C17 as the code has it: at most one node differs, and a node that was
\* redrawn as it was is a candidate too.
C17_AtMostOneNodeRewired ==
    (call.op = "get_neighbors" /\ call.pc = "compile") =>
        /\ Len(call.graph) = Len(BaseGraph)
        /\ \E i \in 2..Len(BaseGraph) : RewiredAt(i)

\* A candidate whose third node lost an input of out-degree 2 and was given
\* one earlier node.
C17_WitnessRewired ==
    /\ call.op = "get_neighbors" /\ call.pc = "compile"
    /\ Len(BaseGraph) = 4
    /\ DiffersAt(3)
    /\ \E inp \in Range(BaseGraph[3].inputs) : inp \notin Range(call.graph[3].inputs)
    /\ Len(call.graph[3].inputs) = 1

-----------------------------------------------------------------------------
(* The operators and the caller's architectures *)

\* C18: get_neighbors and crossover work on copies only: no step of a call
\* of either, from its entry to its return (with or without a result, after
\* any number of attempts, in any sequence of calls on the same
\* architectures), changes the graph, the channel configuration, the
\* post-upsample count or the metadata of an architecture the caller holds.
C18_OperatorsWorkOnCopies ==
    [][call'.op \in {"get_neighbors", "crossover"} => pop' = pop]_vars

\* crossover has returned an architecture after two attempts, on parents of
\* which one is the kept child of an earlier call.
C18_Witness ==
    /\ call.op = "crossover"
    /\ call.pc = "returned"
    /\ call.nb_tries = 2
    /\ call.result # <<>>
    /\ ~IsSeed(pop[OffspringSlot])
    /\ \A s \in Slots : call.result[1].arch.graph # pop[s].arch.graph

\* get_neighbors has returned a neighbor, found in the second attempt, whose
\* graph is not the graph of the base model.
C18_WitnessNeighbor ==
    /\ call.op = "get_neighbors"
    /\ call.pc = "returned"
    /\ call.nb_tries = 2
    /\ Len(call.neighbors) = 1
    /\ call.neighbors[1].arch.graph # pop[call.base].arch.graph

-----------------------------------------------------------------------------
(* config_utils.py: paths *)

\* A string is the sequence of its tokens: "/", "..", ".", " ", the prefix
\* "_copy:" and names, which hold none of the others.
COPY_VALUE_PREFIX == "_copy:"

StartsWith(str, token) == Len(str) >= 1 /\ str[1] = token

EndsWith(str, token) == Len(str) >= 1 /\ str[Len(str)] = token

\* str.strip(): the string without the blanks at its ends.
RECURSIVE StrStrip(_)
StrStrip(str) ==
    IF StartsWith(str, " ") THEN StrStrip(Tail(str))
    ELSE IF EndsWith(str, " ") THEN StrStrip(SubSeq(str, 1, Len(str) - 1))
    ELSE str

\* path.split("/"): the pieces between the slashes, "" for an empty one (no
\* two names stand next to each other in a path).
RECURSIVE PathSplitFrom(_, _, _)
PathSplitFrom(path, k, piece) ==
    IF k > Len(path) THEN <<piece>>
    ELSE IF path[k] = "/" THEN <<piece>> \o PathSplitFrom(path, k + 1, "")
    ELSE PathSplitFrom(path, k + 1, path[k])

PathSplit(path) == PathSplitFrom(path, 1, "")

\* "/".join(paths).
RECURSIVE PathJoin(_)
PathJoin(paths) ==
    IF paths = <<>> THEN <<>>
    ELSE IF Len(paths) = 1 THEN <<paths[1]>>
    ELSE <<paths[1], "/">> \o PathJoin(Tail(paths))

\* Lines 49-52.
NormalizePath(path) ==
    IF Len(path) > 1 /\ EndsWith(path, "/") THEN SubSeq(path, 1, Len(path) - 1)
    ELSE path

\* concatenate_paths(path1, path2), lines 35-64.
ConcatenatePaths(path1, path2) ==
    LET split_point == (IF EndsWith(path1, "/") THEN 1 ELSE 0)
                       + (IF StartsWith(path2, "/") THEN 1 ELSE 0)
        concat_path == IF split_point = 0 THEN path1 \o <<"/">> \o path2
                       ELSE IF split_point = 1 THEN path1 \o path2
                       ELSE SubSeq(path1, 1, Len(path1) - 1) \o path2
    IN  NormalizePath(concat_path)

\* is_path_valid(path), line 78.
IsPathValid(path) ==
    StartsWith(path, "/") /\ (path = <<"/">> \/ ~EndsWith(path, "/"))

\* Lines 102-114: the loop over full_paths from position i on, final_paths
\* so far; a ".." with nothing to pop raises.
RECURSIVE FinalPaths(_, _, _)
FinalPaths(full_paths, i, final_paths) ==
    IF i > Len(full_paths) THEN [raised |-> FALSE, paths |-> final_paths]
    ELSE LET path == full_paths[i]
         IN  IF path = "" \/ path = "."
             THEN FinalPaths(full_paths, i + 1, final_paths)
             ELSE IF path = ".."
             THEN IF Len(final_paths) > 0
                  THEN FinalPaths(full_paths, i + 1,
                                  SubSeq(final_paths, 1, Len(final_paths) - 1))
                  ELSE [raised |-> TRUE, paths |-> <<>>]
             ELSE FinalPaths(full_paths, i + 1, Append(final_paths, path))

\* get_absolute_path(src_folder, rel_path), lines 81-119: the path, or the
\* error raised.
GetAbsolutePath(src_folder, rel_path) ==
    LET rel_paths == PathSplit(rel_path)
        src_folder_paths == IF StartsWith(rel_path, "/") THEN <<>>
                            ELSE PathSplit(src_folder)
        final == FinalPaths(src_folder_paths \o rel_paths, 1, <<>>)
        final_path == <<"/">> \o PathJoin(final.paths)
    IN  IF ~(Len(src_folder) > 0 /\ StartsWith(src_folder, "/"))
        THEN [error |-> "AssertionError:93", path |-> <<>>]
        ELSE IF final.raised THEN [error |-> "RuntimeError:112", path |-> <<>>]
        ELSE IF ~IsPathValid(final_path)
        THEN [error |-> "AssertionError:117", path |-> <<>>]
        ELSE [error |-> "", path |-> final_path]

\* get_path_to_resolve(value), lines 122-137: the text after the prefix,
\* stripped, if any (None is the empty sequence).
GetPathToResolve(value) ==
    IF StartsWith(value, COPY_VALUE_PREFIX) THEN <<StrStrip(Tail(value))>>
    ELSE <<>>

\* The test "if resolved_path:" of lines 181 and 220: neither None nor "".
Truthy(resolved_path) == resolved_path # <<>> /\ resolved_path[1] # <<>>

-----------------------------------------------------------------------------
(* config_utils.py: resolve_dict on a dictionary of scalars and copy values *)

\* A dictionary is the sequence of its items in insertion order; the values
\* are strings.  The root dictionary holds no dictionary and no "_copy" key.
DictKeys(d) == {d[i].key : i \in 1..Len(d)}

DictGet(d, k) == d[CHOOSE i \in 1..Len(d) : d[i].key = k].value

\* The string a piece of a split path is.
PieceStr(piece) == IF piece = "" THEN <<>> ELSE <<piece>>

\* Lines 158-177 from the piece at position i on: current is the root
\* dictionary (is_dict) or a value.  _resolve_dict of line 166 returns at
\* once on a visited path (line 205).
RECURSIVE WalkPath(_, _, _, _, _, _)
WalkPath(root_dict, visited_paths, pieces, i, current, current_path) ==
    IF i > Len(pieces)
    THEN [error |-> "", current |-> current, current_path |-> current_path]
    ELSE IF pieces[i] = ""
    THEN WalkPath(root_dict, visited_paths, pieces, i + 1, current, current_path)
    ELSE IF ~current.is_dict
    THEN [error |-> "KeyError:175", current |-> current,
          current_path |-> current_path]
    ELSE IF current_path \notin visited_paths
    THEN [error |-> "unresolved", current |-> current,
          current_path |-> current_path]
    ELSE IF pieces[i] \in DictKeys(root_dict)
    THEN WalkPath(root_dict, visited_paths, pieces, i + 1,
                  [is_dict |-> FALSE, value |-> DictGet(root_dict, pieces[i])],
                  ConcatenatePaths(current_path, <<pieces[i]>>))
    ELSE [error |-> "RuntimeError:173", current |-> current,
          current_path |-> current_path]

\* One frame of resolve_path(root_dict, path, visited_paths), lines 153-187,
\* up to its recursive call: what it raises, the value it returns, or the
\* path it calls itself with.  At line 183 path is the variable of the loop
\* of line 158: the last piece of the path.
ResolvePathFrame(root_dict, path, visited_paths) ==
    LET pieces == PathSplit(path)
        walk == WalkPath(root_dict, visited_paths, pieces, 1,
                         [is_dict |-> TRUE, value |-> <<>>], <<"/">>)
        loop_path == PieceStr(pieces[Len(pieces)])
        resolved_path == IF walk.current.is_dict THEN <<>>
                         ELSE GetPathToResolve(walk.current.value)
        next == GetAbsolutePath(walk.current_path, resolved_path[1])
    IN  IF ~IsPathValid(path)
        THEN [outcome |-> "raise", error |-> "AssertionError:153",
              value |-> <<>>, next_path |-> <<>>]
        ELSE IF walk.error # ""
        THEN [outcome |-> "raise", error |-> walk.error,
              value |-> <<>>, next_path |-> <<>>]
        ELSE IF ~Truthy(resolved_path)
        THEN [outcome |-> "return", error |-> "",
              value |-> walk.current.value, next_path |-> <<>>]
        ELSE IF next.error # ""
        THEN [outcome |-> "raise", error |-> next.error,
              value |-> <<>>, next_path |-> <<>>]
        ELSE IF next.path = loop_path
        THEN [outcome |-> "raise", error |-> "RuntimeError:184",
              value |-> <<>>, next_path |-> <<>>]
        ELSE [outcome |-> "call", error |-> "",
              value |-> <<>>, next_path |-> next.path]

\* The frames of resolve_path the interpreter allows before it raises
\* RecursionError.
MaxRecursion == 3

\* The dictionaries resolve_dict is given: up to MaxKeys of the keys a and b
\* in either order, with a scalar, a copy of /a, of /b, of the missing /c,
\* of ../b, of the relative b, or the bare prefix as values.
MaxKeys == 2

ConfigKeys == {"a", "b"}

ConfigValues ==
    {<<"1">>,
     <<COPY_VALUE_PREFIX, " ", "/", "a">>,
     <<COPY_VALUE_PREFIX, " ", "/", "b">>,
     <<COPY_VALUE_PREFIX, " ", "/", "c">>,
     <<COPY_VALUE_PREFIX, "..", "/", "b">>,
     <<COPY_VALUE_PREFIX, " ", "b", " ">>,
     <<COPY_VALUE_PREFIX, " ">>}

RootDicts ==
    {d \in UNION {[1..n -> [key : ConfigKeys, value : ConfigValues]] :
                    n \in 0..MaxKeys} :
        \A i, j \in 1..Len(d) : i # j => d[i].key # d[j].key}

\* Lines 218-227 after the round of the key at key_idx: the next key, or the
\* return of resolve_dict.
NextKey(c) ==
    IF c.key_idx < Len(c.root_dict)
    THEN [c EXCEPT !.pc = "key", !.key_idx = @ + 1, !.stack = <<>>]
    ELSE [c EXCEPT !.pc = "returned", !.stack = <<>>]

InitResolve ==
    /\ cfg = CfgIdle
    /\ SpaceIdle
    /\ rnCall = RnIdle
    /\ renCall = RenIdle
    /\ ctor = CtorIdle

\* resolve_dict(root_dict), lines 238 and 203-218: "/" is visited, there is
\* no "_copy" key, the loop over the keys starts.
ResolveDictCall ==
    /\ cfg.pc = "idle"
    /\ \E root_dict \in RootDicts :
          cfg' = NextKey([CfgIdle EXCEPT !.root_dict = root_dict,
                                         !.visited_paths = {<<"/">>}])
    /\ UNCHANGED <<rnCall, renCall, spaceVars, ctor>>

\* Lines 219-223 for the key at key_idx: a value that is no copy stays (it
\* is no dictionary, line 226); for a copy resolve_path is called.
ResolveKey ==
    /\ cfg.pc = "key"
    /\ LET item == cfg.root_dict[cfg.key_idx]
           resolved_path == GetPathToResolve(item.value)
           abs == GetAbsolutePath(ConcatenatePaths(<<"/">>, <<item.key>>),
                                  resolved_path[1])
       IN  cfg' = IF ~Truthy(resolved_path) THEN NextKey(cfg)
                  ELSE IF abs.error # ""
                  THEN [cfg EXCEPT !.pc = "raised", !.error = abs.error]
                  ELSE [cfg EXCEPT !.pc = "path", !.stack = <<abs.path>>]
    /\ UNCHANGED <<rnCall, renCall, spaceVars, ctor>>

\* The innermost frame of resolve_path runs: it raises, or calls itself
\* (RecursionError when the interpreter allows no further frame), or
\* returns, and then every frame returns that value (line 187) and line 221
\* stores it.
ResolvePath ==
    /\ cfg.pc = "path"
    /\ LET frame == ResolvePathFrame(cfg.root_dict, cfg.stack[Len(cfg.stack)],
                                     cfg.visited_paths)
       IN  /\ frame.error # "unresolved"
           /\ cfg' = IF frame.outcome = "raise"
                     THEN [cfg EXCEPT !.pc = "raised", !.error = frame.error]
                     ELSE IF frame.outcome = "call"
                     THEN IF Len(cfg.stack) >= MaxRecursion
                          THEN [cfg EXCEPT !.pc = "raised",
                                           !.error = "RecursionError"]
                          ELSE [cfg EXCEPT !.stack = Append(@, frame.next_path)]
                     ELSE NextKey([cfg EXCEPT
                              !.root_dict[cfg.key_idx].value = frame.value])
    /\ UNCHANGED <<rnCall, renCall, spaceVars, ctor>>

NextResolve == ResolveDictCall \/ ResolveKey \/ ResolvePath

SpecResolve == InitResolve /\ [][NextResolve]_vars

-----------------------------------------------------------------------------
(* Properties of resolve_dict *)

\* The path names a key the root dictionary does not have.
NamesMissingKey(path) ==
    LET names == SelectSeq(PathSplit(path), LAMBDA piece : piece # "")
    IN  names # <<>> /\ names[1] \notin DictKeys(cfg.root_dict)

\* A path is being resolved by two frames of resolve_path.
ResolvedTwice ==
    \E i, j \in 1..Len(cfg.stack) : i # j /\ cfg.stack[i] = cfg.stack[j]

\* C20: resolve_dict detects circular references: no copy value is followed,
\* directly or through a chain of copy values, back to a path that is being
\* resolved, the recursion is never cut by the interpreter, a reference back
\* ends in the circular-reference RuntimeError (line 184), and a copy path
\* that names a missing key ends in a RuntimeError.
C20_CircularReferenceDetected ==
    /\ ~ResolvedTwice
    /\ cfg.error # "RecursionError"
    /\ (cfg.pc = "raised" /\ cfg.stack # <<>>
           /\ NamesMissingKey(cfg.stack[Len(cfg.stack)]))
          => cfg.error = "RuntimeError:173"

\* C20 as the code has it: the error of line 184 is never raised, a
\* reference back is followed until the interpreter allows no further frame,
\* a missing key raises the RuntimeError of line 173, and every dictionary
\* the walk of resolve_path enters is a visited one.
C20_MissingKeyRaisesOnly ==
    /\ cfg.error # "RuntimeError:184"
    /\ cfg.error = "RecursionError" => ResolvedTwice
    /\ (cfg.pc = "raised" /\ cfg.stack # <<>>
           /\ NamesMissingKey(cfg.stack[Len(cfg.stack)]))
          => cfg.error = "RuntimeError:173"
    /\ cfg.pc = "path" =>
          ResolvePathFrame(cfg.root_dict, cfg.stack[Len(cfg.stack)],
                           cfg.visited_paths).error # "unresolved"

\* resolve_dict has returned a dictionary in which a chain of two copy
\* values was resolved to a scalar.
C20_WitnessChainResolved ==
    /\ cfg.pc = "returned"
    /\ Len(cfg.root_dict) = 2
    /\ \A i \in 1..2 : cfg.root_dict[i].value = <<"1">>

\* The value at /a copies /a, and resolve_path was cut by the interpreter.
C20_WitnessSelfCopy ==
    /\ cfg.pc = "raised"
    /\ cfg.error = "RecursionError"
    /\ Len(cfg.root_dict) = 1
    /\ cfg.stack[1] = <<"/", "a">>

\* A copy of the missing /c has raised the RuntimeError of line 173.
C20_WitnessMissingKey ==
    /\ cfg.pc = "raised"
    /\ cfg.error = "RuntimeError:173"
    /\ cfg.stack = << <<"/", "c">> >>

=============================================================================
